---- MODULE Spec2Model ----
(***************************************************************************)
(* frogweather: a polled weather station.  update() decides whether the    *)
(* frame is outdated, _render_image() composes the frame after             *)
(* _update_background() has chosen a background image, which in turn asks  *)
(* _update_weather() to refresh the weather behind a rate limit.           *)
(*                                                                         *)
(* Time is wall-clock time in whole seconds since 00:00:00 of a December   *)
(* 30th of a non-leap year.  Temperatures are tenths of a degree Celsius,  *)
(* probabilities are millionths.                                           *)
(***************************************************************************)
EXTENDS Integers, Sequences, FiniteSets

VARIABLES
    clock,            \* the last wall-clock reading any call has made
    inited,           \* init() has completed
    _loc,             \* geographical location of the user
    fs,               \* the image directory tree on disk
    _weatherupdate,   \* time of the last weather update (attempt)
    _clockupdate,     \* time of the last clock update
    _temp,            \* current temperature
    _precip,          \* current precipitation probability
    _desc,            \* current weather description
    _image,           \* current weather station image
    _background,      \* background image
    _backgroundfile,  \* background image file name
    call,             \* what the last call did (observation only)
    lastquery,        \* time of the latest provider query (observation only)
    prevquery         \* time of the provider query before it (observation only)

vars == <<clock, inited, _loc, fs, _weatherupdate, _clockupdate, _temp,
          _precip, _desc, _image, _background, _backgroundfile, call,
          lastquery, prevquery>>

(***************************************************************************)
(* Bounds of the model.                                                    *)
(***************************************************************************)
\* Seconds a behaviour runs past its start time.
Horizon == 22

\* Start times: Dec 30 10:59:48 (an ordinary day, twelve seconds before the
\* minute and the hour change) and Dec 31 23:59:48 (twelve seconds before
\* New Year's Eve turns into New Year's Day).
StartTimes == {10 * 3600 + 59 * 60 + 48, 86400 + 23 * 3600 + 59 * 60 + 48}

\* Seconds between two polls of update(), and seconds that pass between two
\* clock readings inside one call (the provider query takes time).
Steps == {2, 10}
Delays == {0, 2}

(***************************************************************************)
(* Python's None, one per value type so that TLC can compare.              *)
(***************************************************************************)
None == "None"
NoneN == -1
NoneV == <<>>

(***************************************************************************)
(* datetime: the fields of a wall-clock reading.                           *)
(***************************************************************************)
CumDays == <<0, 31, 59, 90, 120, 151, 181, 212, 243, 273, 304, 334>>

DayOfYear(t) == (334 + 29 + t \div 86400) % 365

Month(t) ==
    CHOOSE m \in 1..12 :
        /\ CumDays[m] <= DayOfYear(t)
        /\ (m = 12 \/ DayOfYear(t) < CumDays[m + 1])

Day(t) == DayOfYear(t) - CumDays[Month(t)] + 1

Hour(t) == (t \div 3600) % 24

Minute(t) == (t \div 60) % 60

Max(a, b) == IF a >= b THEN a ELSE b

Min(a, b) == IF a <= b THEN a ELSE b

\* max(timedelta(seconds=10), timedelta(days=31) / 1000000), in seconds.
_waittime == Max(10, (31 * 86400) \div 1000000)

\* n / d rounded to the nearest integer, ties to the even one (Python 3's
\* round() and the 'f' and '%' formats), for d > 0.
RoundDiv(n, d) ==
    LET q == n \div d
        r == n % d
    IN  IF 2 * r < d THEN q
        ELSE IF 2 * r > d THEN q + 1
        ELSE IF q % 2 = 0 THEN q ELSE q + 1

\* round(_temp) of a temperature in tenths of a degree.
Round(tenths) == RoundDiv(tenths, 10)

(***************************************************************************)
(* The provider's response.  A response is a record: ok is FALSE when the  *)
(* request or the JSON decoding raised; temp_c is <<"num", tenths>>,       *)
(* <<"str", 0>> (a JSON string where a number belongs) or Missing; text is *)
(* current.condition.text; is_day is 1 or 0; forecast is the flattened     *)
(* chance_of_rain of forecastday[].hour[] in percent, or Missing.          *)
(***************************************************************************)
Missing == <<"missing">>

KeyError == "KeyError"

\* The keys of the dictionary response_to_desc builds.
ConditionTexts ==
    {"Sunny", "Clear", "Partly cloudy", "Cloudy", "Overcast", "Mist",
     "Patchy rain possible", "Patchy snow possible",
     "Patchy sleet possible", "Patchy freezing drizzle possible",
     "Thundery outbreaks possible", "Blowing snow", "Blizzard", "Fog",
     "Freezing fog", "Patchy light drizzle", "Light drizzle",
     "Freezing drizzle", "Heavy freezing drizzle", "Patchy light rain",
     "Light rain", "Moderate rain at times", "Moderate rain",
     "Heavy rain at times", "Heavy rain", "Light freezing rain",
     "Moderate or heavy freezing rain", "Light sleet",
     "Moderate or heavy sleet", "Patchy light snow", "Light snow",
     "Patchy moderate snow", "Moderate snow", "Patchy heavy snow",
     "Heavy snow", "Ice pellets", "Light rain shower",
     "Moderate or heavy rain shower", "Torrential rain shower",
     "Light sleet showers", "Moderate or heavy sleet showers",
     "Light snow showers", "Moderate or heavy snow showers",
     "Light showers of ice pellets",
     "Moderate or heavy showers of ice pellets",
     "Patchy light rain with thunder",
     "Moderate or heavy rain with thunder",
     "Patchy light snow with thunder",
     "Moderate or heavy snow with thunder"}

\* response_to_desc, were the condition text passed on as it came.
response_to_desc_Text(text, is_day) == text

\* response_to_desc(response): the canonical tag of the condition text, or
\* KeyError when the text is not a key of the dictionary.
response_to_desc(text, is_day) ==
    CASE text = "Sunny" -> "clear-day"
      [] text = "Clear" ->
            IF is_day # 0 THEN "clear-day" ELSE "clear-night"
      [] text = "Partly cloudy" ->
            IF is_day # 0 THEN "partly-cloudy-day" ELSE "partly-cloudy-night"
      [] text = "Cloudy" -> "cloudy"
      [] text = "Overcast" -> "cloudy"
      [] text = "Mist" -> "fog"
      [] text = "Patchy rain possible" -> "rain"
      [] text = "Patchy snow possible" -> "snow"
      [] text = "Patchy sleet possible" -> "sleet"
      [] text = "Patchy freezing drizzle possible" -> "sleet"
      [] text = "Thundery outbreaks possible" -> "thunderstorm"
      [] text = "Blowing snow" -> "snow"
      [] text = "Blizzard" -> "snow"
      [] text = "Fog" -> "fog"
      [] text = "Freezing fog" -> "fog"
      [] text = "Patchy light drizzle" -> "rain"
      [] text = "Light drizzle" -> "rain"
      [] text = "Freezing drizzle" -> "sleet"
      [] text = "Heavy freezing drizzle" -> "sleet"
      [] text = "Patchy light rain" -> "rain"
      [] text = "Light rain" -> "rain"
      [] text = "Moderate rain at times" -> "rain"
      [] text = "Moderate rain" -> "rain"
      [] text = "Heavy rain at times" -> "rain"
      [] text = "Heavy rain" -> "rain"
      [] text = "Light freezing rain" -> "sleet"
      [] text = "Moderate or heavy freezing rain" -> "sleet"
      [] text = "Light sleet" -> "sleet"
      [] text = "Moderate or heavy sleet" -> "sleet"
      [] text = "Patchy light snow" -> "snow"
      [] text = "Light snow" -> "snow"
      [] text = "Patchy moderate snow" -> "snow"
      [] text = "Moderate snow" -> "snow"
      [] text = "Patchy heavy snow" -> "snow"
      [] text = "Heavy snow" -> "snow"
      [] text = "Ice pellets" -> "sleet"
      [] text = "Light rain shower" -> "rain"
      [] text = "Moderate or heavy rain shower" -> "rain"
      [] text = "Torrential rain shower" -> "thunderstorm"
      [] text = "Light sleet showers" -> "sleet"
      [] text = "Moderate or heavy sleet showers" -> "sleet"
      [] text = "Light snow showers" -> "snow"
      [] text = "Moderate or heavy snow showers" -> "snow"
      [] text = "Light showers of ice pellets" -> "sleet"
      [] text = "Moderate or heavy showers of ice pellets" -> "sleet"
      [] text = "Patchy light rain with thunder" -> "thunderstorm"
      [] text = "Moderate or heavy rain with thunder" -> "thunderstorm"
      [] text = "Patchy light snow with thunder" -> "snow"
      [] text = "Moderate or heavy snow with thunder" -> "snow"
      [] OTHER -> KeyError

\* Two days of hourly rain chances: a dry forecast, and one with rain in the
\* first two hours of every half day.
Dry == [i \in 1..48 |-> 0]

Wet == [i \in 1..48 |-> IF i % 12 = 1 THEN 50 ELSE IF i % 12 = 2 THEN 20 ELSE 0]

Response(temp_c, text, is_day, forecast) ==
    [ok |-> TRUE, temp_c |-> temp_c, text |-> text, is_day |-> is_day,
     forecast |-> forecast]

NetworkError ==
    [ok |-> FALSE, temp_c |-> Missing, text |-> "", is_day |-> 0,
     forecast |-> Missing]

\* The provider outcomes the model draws from.
Outcomes ==
    {NetworkError,
     Response(<<"num", -32>>, "Light rain", 1, Wet),
     Response(<<"num", 0>>, "Light rain", 1, Dry),
     Response(<<"num", 70>>, "Light rain", 1, Wet),
     Response(<<"num", 70>>, "Clear", 0, Dry),
     Response(<<"num", 70>>, "Clear", 1, Dry),
     Response(<<"num", 70>>, "Tornado", 1, Dry),
     Response(<<"str", 0>>, "Light rain", 1, Dry),
     Response(Missing, "Light rain", 1, Dry),
     Response(<<"num", -32>>, "Light rain", 1, Missing)}

(***************************************************************************)
(* _update_weather                                                         *)
(***************************************************************************)
\* Gated, were the limit tied to the minute as the clock is.
Gated_SameMinute(now, weatherupdate) ==
    weatherupdate # NoneN /\ Minute(now) = Minute(weatherupdate)

\* The rate limit: the waiting time to the next call has not yet passed.
Gated(now, weatherupdate) ==
    weatherupdate # NoneN /\ now - weatherupdate < _waittime

\* SpecialDesc, were no date special.
SpecialDesc_Never(now) == None

\* The description a special date forces, set before the query is made.
SpecialDesc(now) ==
    IF Month(now) = 1 /\ Day(now) = 1 THEN "new-years-day"
    ELSE IF Month(now) = 12 /\ Day(now) = 31 THEN "new-years-eve"
    ELSE None

\* The share of one forecast hour in p_dry, in percent; an hour past the end
\* of the list is not in the slice pp_rain[hour:hour+3].
DryShare(forecast, i) ==
    IF i <= Len(forecast) THEN 100 - forecast[i] ELSE 100

\* PrecipOf, were the probability the average of the three hourly chances.
PrecipOf_Average(forecast, hour) ==
    ((forecast[hour + 1] + forecast[hour + 2] + forecast[hour + 3]) * 10000)
        \div 3

\* 1 - prod(1 - chance_i) over pp_rain[hour:hour+3], in millionths.
PrecipOf(forecast, hour) ==
    1000000 - DryShare(forecast, hour + 1) * DryShare(forecast, hour + 2)
                * DryShare(forecast, hour + 3)

\* The try block: each assignment made before the statement that raises
\* stays; the except clause only logs.  The last statement formats _temp
\* with '{:.1f}', which raises on a temperature that is no number.
TryQuery(o, desc, hour) ==
    IF ~o.ok \/ o.temp_c = Missing
    THEN [temp |-> NoneV, desc |-> desc, precip |-> NoneN, raised |-> TRUE]
    ELSE LET d == IF desc = None THEN response_to_desc(o.text, o.is_day)
                  ELSE desc
         IN  IF d = KeyError
             THEN [temp |-> o.temp_c, desc |-> desc, precip |-> NoneN,
                   raised |-> TRUE]
             ELSE IF o.forecast = Missing
             THEN [temp |-> o.temp_c, desc |-> d, precip |-> NoneN,
                   raised |-> TRUE]
             ELSE [temp |-> o.temp_c, desc |-> d,
                   precip |-> PrecipOf(o.forecast, hour),
                   raised |-> o.temp_c[1] = "str"]

\* UpdateWeather, were the time of the update recorded only when the query
\* succeeded.
UpdateWeather_StampOnSuccess(now, weatherupdate, temp, desc, precip, o) ==
    IF weatherupdate # NoneN /\ now - weatherupdate < _waittime
    THEN [queried |-> FALSE, failed |-> FALSE,
          weatherupdate |-> weatherupdate, temp |-> temp, desc |-> desc,
          precip |-> precip]
    ELSE LET r == TryQuery(o, SpecialDesc(now), Hour(now))
         IN  [queried |-> TRUE, failed |-> r.raised,
              weatherupdate |-> IF r.raised THEN weatherupdate ELSE now,
              temp |-> r.temp, desc |-> r.desc, precip |-> r.precip]

\* UpdateWeather, were the snapshot kept until the provider has answered.
UpdateWeather_KeepLast(now, weatherupdate, temp, desc, precip, o) ==
    IF weatherupdate # NoneN /\ now - weatherupdate < _waittime
    THEN [queried |-> FALSE, failed |-> FALSE,
          weatherupdate |-> weatherupdate, temp |-> temp, desc |-> desc,
          precip |-> precip]
    ELSE LET r == TryQuery(o, SpecialDesc(now), Hour(now))
         IN  [queried |-> TRUE, failed |-> r.raised, weatherupdate |-> now,
              temp |-> IF o.ok THEN r.temp ELSE temp,
              desc |-> IF o.ok THEN r.desc ELSE desc,
              precip |-> IF o.ok THEN r.precip ELSE precip]

\* _update_weather(): what it leaves in _weatherupdate, _temp, _desc and
\* _precip when it reads the clock at now and the provider answers o, and
\* whether it queried the provider.
UpdateWeather(now, weatherupdate, temp, desc, precip, o) ==
    IF Gated(now, weatherupdate)
    THEN [queried |-> FALSE, failed |-> FALSE,
          weatherupdate |-> weatherupdate, temp |-> temp, desc |-> desc,
          precip |-> precip]
    ELSE LET r == TryQuery(o, SpecialDesc(now), Hour(now))
         IN  [queried |-> TRUE, failed |-> r.raised, weatherupdate |-> now,
              temp |-> r.temp, desc |-> r.desc, precip |-> r.precip]

(***************************************************************************)
(* The image directory.  A path is the sequence of names below _imagedir;  *)
(* a tree is a set of entries [path, kind], kind "dir" or "file"; the      *)
(* entry of the empty path is _imagedir itself.                            *)
(***************************************************************************)
_imageexts == {".png", ".bmp", ".jpg", ".jpeg"}

_imagedir == <<>>

\* os.path.splitext(name)[-1] of the names the trees use.
SplitExt(name) ==
    CASE name \in {"a.png", "c.png", "d.png", "g.png", "sub.png"} -> ".png"
      [] name = "b.jpg" -> ".jpg"
      [] name = "D.PNG" -> ".PNG"
      [] name = "n.txt" -> ".txt"
      [] OTHER -> ""

\* str.lower() of an extension.
Lower(ext) == IF ext = ".PNG" THEN ".png" ELSE ext

\* name.split('_') of the directory names the trees use.
Split(name) ==
    CASE name = "-5_5" -> <<"-5", "5">>
      [] name = "-10_0" -> <<"-10", "0">>
      [] name = "6_30" -> <<"6", "30">>
      [] OTHER -> <<name>>

\* float(s): <<value>>, or <<>> when float() raises ValueError.
Float(s) ==
    CASE s = "-10" -> <<-10>>
      [] s = "-5" -> <<-5>>
      [] s = "0" -> <<0>>
      [] s = "5" -> <<5>>
      [] s = "6" -> <<6>>
      [] s = "30" -> <<30>>
      [] OTHER -> <<>>

Entry(path, kind) == [path |-> path, kind |-> kind]

IsDir(tree, path) == Entry(path, "dir") \in tree

IsFile(tree, path) == Entry(path, "file") \in tree

\* os.listdir(path) of a directory: the names of its entries.
ListDir(tree, path) ==
    {e.path[Len(e.path)] :
        e \in {x \in tree : /\ Len(x.path) = Len(path) + 1
                            /\ SubSeq(x.path, 1, Len(path)) = path}}

\* A well-kept tree: two temperature bands and a default for rain, a default
\* for clear days, a global default.
Regular ==
    {Entry(<<>>, "dir"), Entry(<<"d.png">>, "file"),
     Entry(<<"n.txt">>, "file"),
     Entry(<<"rain">>, "dir"), Entry(<<"rain", "c.png">>, "file"),
     Entry(<<"rain", "-5_5">>, "dir"),
     Entry(<<"rain", "-5_5", "a.png">>, "file"),
     Entry(<<"rain", "6_30">>, "dir"),
     Entry(<<"rain", "6_30", "b.jpg">>, "file"),
     Entry(<<"clear-day">>, "dir"),
     Entry(<<"clear-day", "g.png">>, "file")}

\* A description directory that also holds a directory whose name is no
\* pair of numbers.
Stray ==
    {Entry(<<>>, "dir"), Entry(<<"D.PNG">>, "file"),
     Entry(<<"rain">>, "dir"), Entry(<<"rain", "c.png">>, "file"),
     Entry(<<"rain", "-5_5">>, "dir"),
     Entry(<<"rain", "-5_5", "a.png">>, "file"),
     Entry(<<"rain", "misc">>, "dir")}

\* Overlapping bands, and a band that holds a directory named like an image.
Overlap ==
    {Entry(<<>>, "dir"),
     Entry(<<"rain">>, "dir"),
     Entry(<<"rain", "-5_5">>, "dir"),
     Entry(<<"rain", "-5_5", "a.png">>, "file"),
     Entry(<<"rain", "-10_0">>, "dir"),
     Entry(<<"rain", "-10_0", "g.png">>, "file"),
     Entry(<<"rain", "6_30">>, "dir"),
     Entry(<<"rain", "6_30", "sub.png">>, "dir")}

\* No image directory at all.
Absent == {}

Trees == {Regular, Stray, Overlap, Absent}

(***************************************************************************)
(* _update_background: the candidate images                                *)
(***************************************************************************)
\* Python's truth value of _temp: None and 0 are false.
Truthy(temp) == temp # NoneV /\ (temp[1] = "str" \/ temp[2] # 0)

\* Every order os.listdir may return the names in.
RECURSIVE Orders(_)
Orders(S) ==
    IF S = {} THEN {<<>>}
    ELSE UNION {{<<x>> \o rest : rest \in Orders(S \ {x})} : x \in S}

\* [float(bound) for bound in file.split('_')]: the bounds, or <<>> when
\* float() raises.
TempRange(name) ==
    LET parts == Split(name)
    IN  IF \E i \in 1..Len(parts) : Float(parts[i]) = <<>> THEN <<>>
        ELSE [i \in 1..Len(parts) |-> Float(parts[i])[1]]

\* The image-named entries of a band directory (files or not).
BandImages(tree, tempdir) ==
    {Append(tempdir, n) :
        n \in {m \in ListDir(tree, tempdir) :
                  Lower(SplitExt(m)) \in _imageexts}}

\* The loop over the entries of descdir in the order given: imagefiles when
\* the loop ends, or when float() or round() raises and the except clause
\* ends it.
RECURSIVE BandScan(_, _, _, _, _)
BandScan(tree, descdir, temp, order, imagefiles) ==
    IF order = <<>> THEN imagefiles
    ELSE LET file == Head(order)
             tempdir == Append(descdir, file)
             temprange == TempRange(file)
         IN  IF ~IsDir(tree, tempdir)
             THEN BandScan(tree, descdir, temp, Tail(order), imagefiles)
             ELSE IF temprange = <<>> \/ temp[1] = "str"
             THEN imagefiles
             ELSE IF /\ temprange[1] <= Round(temp[2])
                     /\ Round(temp[2]) <= temprange[Len(temprange)]
             THEN BandScan(tree, descdir, temp, Tail(order),
                           imagefiles \cup BandImages(tree, tempdir))
             ELSE BandScan(tree, descdir, temp, Tail(order), imagefiles)

\* The temperature tier: the lists imagefiles may hold after it.
BandTier(tree, desc, temp) ==
    IF Truthy(temp) /\ IsDir(tree, <<desc>>)
    THEN {BandScan(tree, <<desc>>, temp, order, {}) :
             order \in Orders(ListDir(tree, <<desc>>))}
    ELSE {{}}

\* The supported image files directly inside a directory; none when the
\* directory cannot be listed.
FilesIn(tree, dir) ==
    IF ~IsDir(tree, dir) THEN {}
    ELSE {Append(dir, n) :
             n \in {m \in ListDir(tree, dir) :
                       /\ IsFile(tree, Append(dir, m))
                       /\ Lower(SplitExt(m)) \in _imageexts}}

\* ImageFiles, were the three tiers searched whatever the tiers before them
\* found.
ImageFiles_Mixed(tree, desc, temp) ==
    {(IF desc # None THEN band \cup FilesIn(tree, <<desc>>) ELSE {})
        \cup FilesIn(tree, _imagedir) :
        band \in IF desc # None THEN BandTier(tree, desc, temp) ELSE {{}}}

\* The lists imagefiles may hold when the search ends.
ImageFiles(tree, desc, temp) ==
    LET described ==
            IF desc # None
            THEN {IF band = {} THEN FilesIn(tree, <<desc>>) ELSE band :
                     band \in BandTier(tree, desc, temp)}
            ELSE {{}}
    IN  {IF found = {} THEN FilesIn(tree, _imagedir) ELSE found :
            found \in described}

(***************************************************************************)
(* _update_background: the selection                                       *)
(***************************************************************************)
\* Image.new('RGB', (64, 128), color='blue')
Monochrome == <<"RGB", 64, 128, "blue">>

\* Image.open(file): the raster of an image file.
Opened(file) == <<"file", file>>

\* Select, were the image on display not looked for among the images found.
Select_Repick(backgroundfile, background, imagefiles, pick, tree) ==
    IF imagefiles # {}
    THEN IF IsFile(tree, pick)
         THEN [backgroundfile |-> pick, background |-> Opened(pick),
               opened |-> TRUE, raised |-> FALSE]
         ELSE [backgroundfile |-> pick, background |-> background,
               opened |-> TRUE, raised |-> TRUE]
    ELSE [backgroundfile |-> NoneV, background |-> Monochrome,
          opened |-> FALSE, raised |-> FALSE]

\* Lines 257-268: the image on display stays if it is among the images
\* found; otherwise pick is loaded (Image.open raises when pick is no
\* file, after _backgroundfile was set), or the monochrome image is made.
Select(backgroundfile, background, imagefiles, pick, tree) ==
    IF backgroundfile \in imagefiles
    THEN [backgroundfile |-> backgroundfile, background |-> background,
          opened |-> FALSE, raised |-> FALSE]
    ELSE IF imagefiles # {}
    THEN IF IsFile(tree, pick)
         THEN [backgroundfile |-> pick, background |-> Opened(pick),
               opened |-> TRUE, raised |-> FALSE]
         ELSE [backgroundfile |-> pick, background |-> background,
               opened |-> TRUE, raised |-> TRUE]
    ELSE [backgroundfile |-> NoneV, background |-> Monochrome,
          opened |-> FALSE, raised |-> FALSE]

(***************************************************************************)
(* _render_image: the frame                                                *)
(***************************************************************************)
\* strftime('%I:%M'): the hour of the 12-hour clock and the minute.
ClockText(now) == <<((Hour(now) + 11) % 12) + 1, Minute(now)>>

\* '{:> 3.0f}' of the temperature; an empty field when there is none.
TempText(temp) == IF temp = NoneV THEN <<>> ELSE <<Round(temp[2])>>

\* '{:>4.0%}' of min(_precip, 0.99); an empty field when there is none.
PrecipText(precip) ==
    IF precip = NoneN THEN <<>>
    ELSE <<RoundDiv(Min(precip, 990000), 10000)>>

\* Lines 164-188: the copy of the background (of None it raises
\* AttributeError), the clock drawn at the time now, which becomes
\* _clockupdate, then the temperature (format() raises ValueError on a
\* temperature that is no number), then the precipitation probability.
Draw(background, image, clockupdate, now, temp, precip) ==
    IF background = NoneV
    THEN [image |-> image, clockupdate |-> clockupdate,
          ret |-> "AttributeError"]
    ELSE IF temp # NoneV /\ temp[1] = "str"
    THEN [image |-> <<background, ClockText(now), <<>>, <<>>>>,
          clockupdate |-> now, ret |-> "ValueError"]
    ELSE [image |-> <<background, ClockText(now), TempText(temp),
                      PrecipText(precip)>>,
          clockupdate |-> now, ret |-> "True"]

(***************************************************************************)
(* update                                                                  *)
(***************************************************************************)
\* Outdated, were every poll to render.
Outdated_Always(now, clockupdate, weatherupdate) == TRUE

\* Outdated, were the minute of the clock the only trigger.
Outdated_MinuteOnly(now, clockupdate, weatherupdate) ==
    clockupdate = NoneN \/ Minute(now) # Minute(clockupdate)

\* Lines 130-131: the weather station image is outdated.
Outdated(now, clockupdate, weatherupdate) ==
    \/ clockupdate = NoneN
    \/ Minute(now) # Minute(clockupdate)
    \/ weatherupdate = NoneN
    \/ now - weatherupdate >= _waittime

InHorizon(t) == \E s \in StartTimes : s <= t /\ t <= s + Horizon

\* The record of a call: what it returned ("True", "False", "None", or the
\* exception that left it, "IOError" for any error of Image.open), the
\* clock readings of update() and of _update_weather(), _clockupdate and
\* _temp as the call found them, whether the provider was queried, what
\* it answered
\* (NetworkError when it was not asked) and whether the query failed,
\* whether the images were searched and which were found, and whether
\* Image.open was called.
Idle(op, ret) ==
    [op |-> op, ret |-> ret, now |-> NoneN, wnow |-> NoneN,
     clockupdate |-> NoneN, temp |-> NoneV, queried |-> FALSE,
     response |-> NetworkError, failed |-> FALSE, searched |-> FALSE,
     imagefiles |-> {}, opened |-> FALSE]

Init ==
    /\ clock \in StartTimes
    /\ inited = FALSE
    /\ _loc = NoneV
    /\ fs \in Trees
    /\ _weatherupdate = NoneN
    /\ _clockupdate = NoneN
    /\ _temp = NoneV
    /\ _precip = NoneN
    /\ _desc = None
    /\ _image = NoneV
    /\ _background = NoneV
    /\ _backgroundfile = NoneV
    /\ call = Idle("import", "None")
    /\ lastquery = NoneN
    /\ prevquery = NoneN

\* The locations location.yaml may hold, <<lat, lon>> in degrees: one on
\* the globe, one whose latitude and longitude are both beyond it.
Locations == {<<48, 8>>, <<91, 181>>}

\* init(): reads the key file, the location and the fonts; an empty key
\* raises ValueError before the location is read, and the location is
\* stored as read.
init ==
    /\ ~inited
    /\ \E apikey \in {"", "key"}, loc \in Locations :
          /\ inited' = (apikey # "")
          /\ _loc' = IF apikey = "" THEN _loc ELSE loc
          /\ call' = Idle("init", IF apikey = "" THEN "ValueError"
                                       ELSE "None")
    /\ UNCHANGED <<clock, fs, _weatherupdate, _clockupdate, _temp, _precip,
                   _desc, _image, _background, _backgroundfile, lastquery,
                   prevquery>>

\* The images on disk change between two polls.
ChangeImages ==
    /\ \E tree \in Trees \ {fs} : fs' = tree
    /\ UNCHANGED <<clock, inited, _loc, _weatherupdate, _clockupdate,
                   _temp, _precip, _desc, _image, _background,
                   _backgroundfile, call, lastquery, prevquery>>

\* get_image(): returns _image and changes nothing.
get_image == UNCHANGED vars

\* UpdateFalse, were the time of the poll recorded as a clock update.
UpdateFalse_Stamp(now) ==
    /\ ~Outdated(now, _clockupdate, _weatherupdate)
    /\ clock' = now
    /\ _clockupdate' = now
    /\ call' = [Idle("update", "False") EXCEPT
                    !.now = now, !.clockupdate = _clockupdate,
                    !.temp = _temp]
    /\ UNCHANGED <<inited, _loc, fs, _weatherupdate, _temp, _precip, _desc,
                   _image, _background, _backgroundfile, lastquery,
                   prevquery>>

\* update() when the image is not outdated: returns False.
UpdateFalse(now) ==
    /\ ~Outdated(now, _clockupdate, _weatherupdate)
    /\ clock' = now
    /\ call' = [Idle("update", "False") EXCEPT
                    !.now = now, !.clockupdate = _clockupdate,
                    !.temp = _temp]
    /\ UNCHANGED <<inited, _loc, fs, _weatherupdate, _clockupdate, _temp,
                   _precip, _desc, _image, _background, _backgroundfile,
                   lastquery, prevquery>>

\* update() when the image is outdated: _render_image(), which calls
\* _update_background(), which calls _update_weather().  The clock is read
\* at now in update(), at wnow in _update_weather() and at rnow in
\* _render_image(); the provider answers o; imagefiles is the list found
\* and pick the random choice from it.
UpdateRender(now, wnow, rnow, o) ==
    \E w \in {UpdateWeather(wnow, _weatherupdate, _temp, _desc, _precip,
                            o)} :
        /\ Outdated(now, _clockupdate, _weatherupdate)
        /\ _weatherupdate' = w.weatherupdate
        /\ _temp' = w.temp
        /\ _desc' = w.desc
        /\ _precip' = w.precip
        /\ lastquery' = IF w.queried THEN wnow ELSE lastquery
        /\ prevquery' = IF w.queried THEN lastquery ELSE prevquery
        /\ \E imagefiles \in ImageFiles(fs, w.desc, w.temp) :
              \E pick \in IF imagefiles = {} THEN {NoneV} ELSE imagefiles :
                 \E b \in {Select(_backgroundfile, _background, imagefiles,
                                  pick, fs)} :
                 \E r \in {Draw(b.background, _image, _clockupdate, rnow,
                                w.temp, w.precip)} :
                     /\ _backgroundfile' = b.backgroundfile
                     /\ _background' = b.background
                     /\ _image' = IF b.raised THEN _image ELSE r.image
                     /\ _clockupdate' =
                            IF b.raised THEN _clockupdate
                            ELSE r.clockupdate
                     /\ clock' = IF b.raised THEN wnow ELSE rnow
                     /\ call' = [op |-> "update",
                                 ret |-> IF b.raised THEN "IOError"
                                         ELSE r.ret,
                                 now |-> now, wnow |-> wnow,
                                 clockupdate |-> _clockupdate,
                                 temp |-> _temp,
                                 queried |-> w.queried, response |-> o,
                                 failed |-> w.failed, searched |-> TRUE,
                                 imagefiles |-> imagefiles,
                                 opened |-> b.opened]
        /\ UNCHANGED <<inited, _loc, fs>>

update ==
    /\ inited
    /\ \E d \in Steps :
          \/ /\ InHorizon(clock + d)
             /\ UpdateFalse(clock + d)
          \/ \E d2 \in Delays, d3 \in Delays :
             \E o \in IF Gated(clock + d + d2, _weatherupdate)
                      THEN {NetworkError} ELSE Outcomes :
                /\ InHorizon(clock + d + d2 + d3)
                /\ UpdateRender(clock + d, clock + d + d2,
                                clock + d + d2 + d3, o)

Next == init \/ update \/ get_image \/ ChangeImages

Spec == Init /\ [][Next]_vars

(***************************************************************************)
(* Properties                                                              *)
(***************************************************************************)
\* A step of update(): the only operation that reads the clock, and every
\* poll comes later than the one before.
Called == call'.op = "update" /\ clock' # clock

\* The last call was an update() that went through _update_background().
Searched == call.op = "update" /\ call.searched

\* C1: any two consecutive provider queries are at least the minimum
\* interval of 10 s apart, whether the earlier one succeeded or failed.
RateLimit ==
    prevquery # NoneN => lastquery - prevquery >= 10

\* Two queries were made, the later one as soon as the limit allowed, and
\* the later one failed.
RateLimitWitness ==
    /\ prevquery # NoneN
    /\ lastquery - prevquery = 10
    /\ call.op = "update" /\ call.queried /\ call.failed

\* C2: when the candidate set _update_background computes contains the
\* selected file path, the path and the background raster stay as they
\* were and no image is loaded.
Stability ==
    [][(Called /\ call'.searched /\ _backgroundfile \in call'.imagefiles)
          => /\ _backgroundfile' = _backgroundfile
             /\ _background' = _background
             /\ ~call'.opened]_vars

\* A search found the image on display among several candidates and kept
\* it.
StabilityWitness ==
    /\ Searched
    /\ ~call.opened
    /\ _backgroundfile \in call.imagefiles
    /\ Cardinality(call.imagefiles) > 1

\* The banded directories of a description directory whose range holds the
\* rounded temperature and which hold a supported image file.
MatchingBands(tree, desc, temp) ==
    {name \in ListDir(tree, <<desc>>) :
        /\ IsDir(tree, <<desc, name>>)
        /\ Len(TempRange(name)) = 2
        /\ TempRange(name)[1] <= Round(temp[2])
        /\ Round(temp[2]) <= TempRange(name)[2]
        /\ FilesIn(tree, <<desc, name>>) # {}}

\* Every sub-directory of the description directory is a band: its name is
\* a pair of numbers.
AllBands(tree, desc) ==
    \A name \in ListDir(tree, <<desc>>) :
        IsDir(tree, <<desc, name>>) => Len(TempRange(name)) = 2

\* C3: for every temperature, 0 and negative ones included, and every
\* description whose directory holds a banded directory that matches the
\* rounded temperature and holds a supported image file, the selected file
\* lies inside such a band directory.  Stated for description directories
\* whose sub-directories are all bands.
BandExclusive ==
    [][(/\ Called /\ call'.searched
        /\ _desc' # None /\ _temp' # NoneV /\ _temp'[1] = "num"
        /\ AllBands(fs, _desc')
        /\ MatchingBands(fs, _desc', _temp') # {})
          => \E name \in MatchingBands(fs, _desc', _temp') :
                /\ Len(_backgroundfile') = 3
                /\ SubSeq(_backgroundfile', 1, 2) = <<_desc', name>>]_vars

\* C4: after every _update_background the background raster is set, and
\* the selected path is one of the candidates of that call, or there were
\* none and the selection is the 64x128 monochrome image with no path.
Renderable ==
    Searched =>
        /\ _background # NoneV
        /\ \/ _backgroundfile \in call.imagefiles
           \/ /\ call.imagefiles = {}
              /\ _background = <<"RGB", 64, 128, "blue">>
              /\ _backgroundfile = NoneV

\* C5: temperature, description and precipitation probability are all
\* populated or all absent.
AllOrNothing ==
    \/ _temp = NoneV /\ _desc = None /\ _precip = NoneN
    \/ _temp # NoneV /\ _desc # None /\ _precip # NoneN

\* C6: after a due refresh whose query failed, temperature, description
\* and precipitation probability are all absent.
FailureClears ==
    (call.op = "update" /\ call.queried /\ call.failed)
        => _temp = NoneV /\ _desc = None /\ _precip = NoneN

\* C7: whatever the provider's answer, update() completes by rendering a
\* frame and returns: no exception reaches its caller (an exception of
\* loading the background image, or of copying a background that was never
\* loaded, is not one of the weather fetch).
NoPropagation ==
    (call.op = "update" /\ call.queried /\ call.failed
        /\ call.ret \notin {"IOError", "AttributeError"})
        => call.ret = "True"

\* C8: _update_weather invoked less than the minimum interval after the
\* last update makes no query and leaves temperature, description,
\* precipitation probability and the time of the last update as they were.
GatedNoOp ==
    [][(/\ Called /\ call'.searched
        /\ _weatherupdate # NoneN
        /\ call'.wnow - _weatherupdate < 10)
          => /\ ~call'.queried
             /\ lastquery' = lastquery
             /\ UNCHANGED <<_temp, _desc, _precip, _weatherupdate>>]_vars

\* An update() rendered a frame over a populated snapshot without a query.
GatedNoOpWitness ==
    /\ Searched
    /\ ~call.queried
    /\ call.ret = "True"
    /\ _temp # NoneV
    /\ call.wnow - _weatherupdate < 10

\* The frame _render_image composes from the state it leaves.
Frame == <<_background, ClockText(_clockupdate), TempText(_temp),
           PrecipText(_precip)>>

\* C9: an update() that returns True has rendered a new frame in that
\* call, and one that returns False has not: the frame, the snapshot, the
\* background and both times are as they were and no query was made.
ReturnValue ==
    [][Called =>
          /\ (call'.ret = "True") =>
                (_clockupdate' = clock' /\ _image' = Frame')
          /\ (call'.ret = "False") =>
                /\ ~call'.queried
                /\ lastquery' = lastquery
                /\ UNCHANGED <<_image, _temp, _desc, _precip, _background,
                               _backgroundfile, _weatherupdate,
                               _clockupdate>>]_vars

\* An update() returned False after a frame had been rendered.
ReturnValueWitness ==
    /\ call.op = "update"
    /\ call.ret = "False"
    /\ _image # NoneV

\* C10 as stated: whenever update() returns True, no frame had been
\* rendered before or the minute of the call differs from the minute of
\* the last render.
NewFrameMeansMinute ==
    [][(Called /\ call'.ret = "True")
          => \/ _clockupdate = NoneN
             \/ Minute(call'.now) # Minute(_clockupdate)]_vars

\* C10 as amended: whenever update() returns True, no frame had been
\* rendered before, or the minute of the call differs from the minute of
\* the last render, or the minimum interval has passed since the last
\* weather update.
NewFrameMeansOutdated ==
    [][(Called /\ call'.ret = "True")
          => \/ _clockupdate = NoneN
             \/ Minute(call'.now) # Minute(_clockupdate)
             \/ call'.now - _weatherupdate >= 10]_vars

\* An update() returned True in the minute of the last render.
NewFrameWitness ==
    /\ call.op = "update"
    /\ call.ret = "True"
    /\ call.clockupdate # NoneN
    /\ Minute(call.now) = Minute(call.clockupdate)

\* C11 as stated: every update() called when no frame has been rendered
\* yet, or in a minute other than that of the last render, returns True
\* with a new frame rendered and _clockupdate the time of that render.
ClockCadence ==
    [][(/\ Called
        /\ \/ _clockupdate = NoneN
           \/ Minute(call'.now) # Minute(_clockupdate))
          => /\ call'.ret = "True"
             /\ _clockupdate' = clock'
             /\ _image' = Frame']_vars

\* get_image(), line 145: the value it returns.
Returned == _image

\* C12 as stated: once init() has completed, get_image() returns a raster,
\* the placeholder if no frame has been rendered yet, and never None.
AlwaysRaster == inited => Returned # NoneV

\* The last call was an update() whose provider query succeeded.
Fetched == call.op = "update" /\ call.queried /\ ~call.failed

\* C13: after a successful query made on January 1 the description is
\* 'new-years-day' and after one made on December 31 it is
\* 'new-years-eve', whatever condition text the provider sent; after one
\* made on any other date it is the mapped condition of the response.
NewYearOverride ==
    Fetched =>
        _desc = IF Month(call.wnow) = 1 /\ Day(call.wnow) = 1
                THEN "new-years-day"
                ELSE IF Month(call.wnow) = 12 /\ Day(call.wnow) = 31
                THEN "new-years-eve"
                ELSE response_to_desc(call.response.text,
                                      call.response.is_day)

\* A query on January 1 succeeded with a condition text the table does
\* not hold.
NewYearOverrideWitness ==
    /\ Fetched
    /\ Month(call.wnow) = 1 /\ Day(call.wnow) = 1
    /\ call.response.text \notin ConditionTexts
    /\ _desc = "new-years-day"

\* C14 as stated: after a due refresh on January 1 or December 31 whose
\* provider query failed, the description is absent.
OverrideOnlyOnSuccess ==
    (/\ call.op = "update" /\ call.queried /\ call.failed
     /\ \/ Month(call.wnow) = 1 /\ Day(call.wnow) = 1
        \/ Month(call.wnow) = 12 /\ Day(call.wnow) = 31)
        => _desc = None

\* The twelve canonical description tags.
CanonicalTags ==
    {"clear-day", "clear-night", "partly-cloudy-day", "partly-cloudy-night",
     "cloudy", "fog", "rain", "snow", "sleet", "thunderstorm",
     "new-years-day", "new-years-eve"}

\* Every key of the dictionary maps to a canonical tag, by day and by
\* night.
TableCanonical ==
    \A text \in ConditionTexts : \A is_day \in {0, 1} :
        response_to_desc(text, is_day) \in CanonicalTags

\* C15: in every reachable state the description is absent or one of the
\* twelve canonical tags, and every condition text of the mapping table
\* maps to one of them for both values of is_day.
ClosedVocabulary ==
    /\ _desc = None \/ _desc \in CanonicalTags
    /\ TableCanonical

\* A query at night succeeded and the table gave the description.
ClosedVocabularyWitness ==
    /\ Fetched
    /\ call.response.is_day = 0
    /\ _desc = response_to_desc(call.response.text, 0)
    /\ _desc = "clear-night"

\* C16 as stated: init() fails on a latitude outside [-90, 90] or a
\* longitude outside [-180, 180], so that no update() runs with such a
\* location.
LocationValidated ==
    call.op = "update" =>
        /\ -90 <= _loc[1] /\ _loc[1] <= 90
        /\ -180 <= _loc[2] /\ _loc[2] <= 180

\* C17: the files directly inside the description directory are candidates
\* only when the temperature tier yielded none, the files directly inside
\* the image root only when both tiers of the description yielded none or
\* the description is absent, and all candidates of one search come from
\* one tier (a path of three names is of the temperature tier, of two of
\* the description directory, of one of the image root).
TierOrder ==
    [][(Called /\ call'.searched) =>
          LET files == call'.imagefiles
          IN  /\ \A f \in files : \A g \in files : Len(f) = Len(g)
              /\ (\E f \in files : Len(f) = 3) =>
                    /\ _desc' # None
                    /\ files \in BandTier(fs, _desc', _temp')
              /\ (\E f \in files : Len(f) = 2) =>
                    /\ _desc' # None
                    /\ {} \in BandTier(fs, _desc', _temp')
                    /\ files = FilesIn(fs, <<_desc'>>)
              /\ (\E f \in files : Len(f) = 1) =>
                    /\ \/ _desc' = None
                       \/ /\ {} \in BandTier(fs, _desc', _temp')
                          /\ FilesIn(fs, <<_desc'>>) = {}
                    /\ files = FilesIn(fs, _imagedir)]_vars

\* A search under a description whose two tiers yielded nothing found the
\* images of the image root.
TierOrderWitness ==
    /\ Searched
    /\ _desc # None
    /\ call.imagefiles # {}
    /\ \A f \in call.imagefiles : Len(f) = 1

\* C18 as stated: the candidates of the temperature tier come from one
\* banded directory only, also when the rounded temperature lies in the
\* range of several.
SingleBand ==
    Searched =>
        \A f \in call.imagefiles : \A g \in call.imagefiles :
            (Len(f) = 3 /\ Len(g) = 3) => f[2] = g[2]

\* C19 as stated, for the temperature tier: when the description directory
\* holds a sub-directory whose name is no pair of numbers, so that
\* enumerating the bands raises, no candidate comes from the temperature
\* tier.
ErrorMeansNone ==
    [][(/\ Called /\ call'.searched
        /\ _desc' # None /\ Truthy(_temp')
        /\ \E name \in ListDir(fs, <<_desc'>>) :
              /\ IsDir(fs, <<_desc', name>>)
              /\ TempRange(name) = <<>>)
          => \A f \in call'.imagefiles : Len(f) # 3]_vars

\* C20: a due refresh sets _weatherupdate to the time of the call and
\* clears temperature, description and precipitation probability before
\* the query is made: after a query that failed at the network level the
\* temperature and the precipitation probability are absent, whatever the
\* snapshot held before, and the description is absent or the new-year tag
\* of the day.
DueRefreshDiscards ==
    [][(Called /\ call'.queried /\ ~call'.response.ok)
          => /\ _weatherupdate' = call'.wnow
             /\ _temp' = NoneV
             /\ _precip' = NoneN
             /\ _desc' \in {None, "new-years-day", "new-years-eve"}]_vars

\* A query failed at the network level in a call that had found a
\* temperature, and the temperature is gone.
DueRefreshDiscardsWitness ==
    /\ call.op = "update" /\ call.queried /\ ~call.response.ok
    /\ call.temp # NoneV
    /\ _temp = NoneV /\ _precip = NoneN

\* The hourly chances of rain, in percent, the formula is checked over.
Chances == {0, 1, 50, 100}

\* A two-day forecast with the chances a, b, c at the flattened positions
\* h, h+1, h+2 (counted from 0) and the chance rest everywhere else.
ForecastWith(h, a, b, c, rest) ==
    [i \in 1..48 |-> IF i = h + 1 THEN a
                     ELSE IF i = h + 2 THEN b
                     ELSE IF i = h + 3 THEN c
                     ELSE rest]

\* For every hour of the day the probability is 1 minus the product of
\* (1 - chance) over the three entries at h, h+1, h+2 and of no other
\* entry, does not decrease when one of the three chances rises, and is 0
\* exactly when all three are 0.
PrecipFormula ==
    \A h \in 0..23 : \A a \in Chances : \A b \in Chances :
    \A c \in Chances : \A rest \in {0, 100} :
        LET p == PrecipOf(ForecastWith(h, a, b, c, rest), h)
        IN  /\ p = 1000000 - (100 - a) * (100 - b) * (100 - c)
            /\ (p = 0) <=> (a = 0 /\ b = 0 /\ c = 0)
            /\ \A x \in Chances :
                  /\ x >= a => PrecipOf(ForecastWith(h, x, b, c, rest), h) >= p
                  /\ x >= b => PrecipOf(ForecastWith(h, a, x, c, rest), h) >= p
                  /\ x >= c => PrecipOf(ForecastWith(h, a, b, x, rest), h) >= p

\* C21: after a successful query at hour h with a two-day hourly forecast
\* the precipitation probability is 1 minus the product of (1 - chance)
\* over the three forecast entries at the flattened positions h, h+1, h+2;
\* it does not decrease in any of the three chances and is 0 if and only
\* if all three are 0.
Precipitation ==
    /\ Fetched =>
          LET f == call.response.forecast
              h == Hour(call.wnow)
          IN  _precip = 1000000 - (100 - f[h + 1]) * (100 - f[h + 2])
                                    * (100 - f[h + 3])
    /\ PrecipFormula

\* A query at 23 h succeeded: the three hours reach into the second day,
\* two of them with a chance of rain.
PrecipitationWitness ==
    /\ Fetched
    /\ Hour(call.wnow) = 23
    /\ call.response.forecast[25] = 50 /\ call.response.forecast[26] = 20
    /\ _precip = 600000

\* C22 as stated: every update() called when a weather fetch is due (none
\* attempted yet, or the minimum interval has passed since the last one)
\* makes exactly one provider query, and every update() called when none
\* is due makes none.
AlwaysAsksAtCall ==
    [][Called =>
          LET due == \/ _weatherupdate = NoneN
                     \/ call'.now - _weatherupdate >= 10
          IN  /\ due => /\ call'.queried
                        /\ lastquery' = call'.wnow
                        /\ prevquery' = lastquery
              /\ ~due => /\ ~call'.queried
                         /\ lastquery' = lastquery]_vars

\* C22 as amended: every update() called when a weather fetch is due makes
\* exactly one provider query, also in the minute of the last render; an
\* update() makes none when it returns False or when no fetch is due at
\* the time _update_weather reads the clock.
AlwaysAsks ==
    [][Called =>
          /\ (\/ _weatherupdate = NoneN
              \/ call'.now - _weatherupdate >= 10)
                => /\ call'.queried
                   /\ lastquery' = call'.wnow
                   /\ prevquery' = lastquery
          /\ (\/ ~call'.searched
              \/ /\ _weatherupdate # NoneN
                 /\ call'.wnow - _weatherupdate < 10)
                => /\ ~call'.queried
                   /\ lastquery' = lastquery]_vars

\* An update() in the minute of the last render made a query.
AlwaysAsksWitness ==
    /\ call.op = "update"
    /\ call.queried
    /\ call.clockupdate # NoneN
    /\ Minute(call.now) = Minute(call.clockupdate)
    /\ lastquery = call.wnow

\* C23 as stated: _weatherupdate and _clockupdate are both unset, or both
\* set with _weatherupdate <= _clockupdate; neither ever decreases; and a
\* provider query is made only in an update() that also renders a frame.
Timestamps ==
    [][/\ \/ _weatherupdate' = NoneN /\ _clockupdate' = NoneN
          \/ /\ _weatherupdate' # NoneN /\ _clockupdate' # NoneN
             /\ _weatherupdate' <= _clockupdate'
       /\ _weatherupdate' >= _weatherupdate
       /\ _clockupdate' >= _clockupdate
       /\ (Called /\ call'.queried) =>
             (call'.ret = "True" /\ _image' = Frame')]_vars

====
